---- MODULE Spec2Model ----
(***************************************************************************)
(* SonarCloud issues exporter (src/get-issues.js): fetch every page of     *)
(* unresolved issues, group them by severity, sort each group, render      *)
(* Markdown tables and write them in chunks to the working directory.      *)
(*                                                                         *)
(* Text is a sequence of one-character strings; a fixed literal of a       *)
(* template that holds no pipe and no line break is kept as one element.   *)
(***************************************************************************)
EXTENDS Integers, Sequences, FiniteSets, TLC

\* ------------------------------------------------------------------ bounds
\* PAGE_SIZE (500 in the source) and ISSUES_PER_FILE (20 in the source) are
\* scaled down: the loops below are written in terms of the two names only.
PAGE_SIZE == 2

ISSUES_PER_FILE == 2

\* The largest number of records the remote service holds.
MaxIssues == 5

\* The largest total the remote service declares.
MaxTotal == 5

\* The longest text of a record field of the renderer's inputs.
MaxText == 2

\* ------------------------------------------------------------- program data
\* A text field that a record leaves out (undefined in the source).
None == <<"undefined">>

\* A number, a list or an object that may be left out is a sequence of at
\* most one element; a ?? b takes the element, or b when there is none.
Absent == <<>>

Some(x) == <<x>>

Coalesce(a, b) == IF a # Absent THEN a[1] ELSE b

\* let total = Infinity
Infinity == -1

BLOCKER == <<"B", "L", "O", "C", "K", "E", "R">>

CRITICAL == <<"C", "R", "I", "T", "I", "C", "A", "L">>

MAJOR == <<"M", "A", "J", "O", "R">>

MINOR == <<"M", "I", "N", "O", "R">>

INFO == <<"I", "N", "F", "O">>

SEVERITIES == <<BLOCKER, CRITICAL, MAJOR, MINOR, INFO>>

Range(s) == {s[i] : i \in 1..Len(s)}

Min(a, b) == IF a < b THEN a ELSE b

\* Math.ceil(a / b) for a >= 0, b > 0
Ceil(a, b) == (a + b - 1) \div b

\* ------------------------------------------------------------ text helpers
\* String(n) for a non-negative integer
RECURSIVE Decimal(_)
Decimal(n) ==
  LET d == <<"0", "1", "2", "3", "4", "5", "6", "7", "8", "9">>
  IN  IF n < 10 THEN <<d[n + 1]>> ELSE Decimal(n \div 10) \o <<d[(n % 10) + 1]>>

\* component.indexOf(":"): the first index (1-based here), 0 when there is none
IndexOfColon(component) ==
  IF \E i \in 1..Len(component) : component[i] = ":"
  THEN CHOOSE i \in 1..Len(component) :
         /\ component[i] = ":"
         /\ \A j \in 1..(i - 1) : component[j] # ":"
  ELSE 0

extractFilePath(component) ==
  LET idx == IndexOfColon(component)
  IN  IF idx >= 1 THEN SubSeq(component, idx + 1, Len(component)) ELSE component

\* .replace(/\|/g, "\\|")
RECURSIVE EscapePipes(_)
EscapePipes(s) ==
  IF s = <<>> THEN <<>>
  ELSE (IF Head(s) = "|" THEN <<"\\", "|">> ELSE <<Head(s)>>) \o EscapePipes(Tail(s))

\* .replace(/\r?\n/g, "<br>")
RECURSIVE BreakLines(_)
BreakLines(s) ==
  IF s = <<>> THEN <<>>
  ELSE IF Len(s) >= 2 /\ s[1] = "\r" /\ s[2] = "\n"
       THEN <<"<", "b", "r", ">">> \o BreakLines(SubSeq(s, 3, Len(s)))
  ELSE IF s[1] = "\n"
       THEN <<"<", "b", "r", ">">> \o BreakLines(Tail(s))
  ELSE <<s[1]>> \o BreakLines(Tail(s))

mdEscape(text) == BreakLines(EscapePipes(IF text = None THEN <<>> ELSE text))

\* URLSearchParams serialisation of one value: the characters that are not
\* URL-safe are percent-encoded
RECURSIVE UrlEncode(_)
UrlEncode(s) ==
  IF s = <<>> THEN <<>>
  ELSE (CASE Head(s) = "|"  -> <<"%", "7", "C">>
          [] Head(s) = "\n" -> <<"%", "0", "A">>
          [] Head(s) = "\r" -> <<"%", "0", "D">>
          [] Head(s) = ":"  -> <<"%", "3", "A">>
          [] OTHER          -> <<Head(s)>>) \o UrlEncode(Tail(s))

issueUrl(issueKey) ==
  <<"https://sonarcloud.io/project/issues?id=useago_ago-chat&issues=">>
    \o UrlEncode(issueKey) \o <<"&open=">> \o UrlEncode(issueKey)

\* new Date(creationDate).toISOString().slice(0, 10): the UTC calendar day of
\* the timestamp.  A timestamp is kept as its day number as written and the
\* shift (-1, 0, 1) that its UTC offset makes to the day; the day is printed
\* as its number.
Created(it) ==
  IF it.creationDate = Absent THEN <<>>
  ELSE Decimal(it.creationDate[1].day + it.creationDate[1].utcShift)

\* One row of the table: the template literal of renderTable
RenderRow(it) ==
  LET file    == extractFilePath(it.component)
      line    == IF it.line = Absent THEN <<>> ELSE Decimal(it.line[1])
      keyLink == <<"[">> \o it.key \o <<"]", "(">> \o issueUrl(it.key) \o <<")">>
      sep     == <<" ", "|", " ">>
  IN  <<"|", " ">> \o keyLink
        \o sep \o mdEscape(it.type)
        \o sep \o mdEscape(it.rule)
        \o sep \o mdEscape(it.severity)
        \o sep \o mdEscape(it.status)
        \o sep \o mdEscape(file)
        \o sep \o mdEscape(line)
        \o sep \o mdEscape(it.message)
        \o sep \o mdEscape(Created(it))
        \o <<" ", "|">>

RECURSIVE JoinRows(_)
JoinRows(rows) ==
  IF rows = <<>> THEN <<>>
  ELSE IF Len(rows) = 1 THEN rows[1]
  ELSE rows[1] \o <<"\n">> \o JoinRows(Tail(rows))

TableHeader ==
  << "| Key | Type | Rule | Severity | Status | File | Line | Message | Created |", "\n",
     "| --- | ---- | ---- | -------- | ------ | ---- | ---- | ------- | ------- |", "\n" >>

renderTable(issues) ==
  IF Len(issues) = 0 THEN <<"_No unresolved issues._", "\n">>
  ELSE TableHeader \o JoinRows([i \in 1..Len(issues) |-> RenderRow(issues[i])]) \o <<"\n">>

\* a.localeCompare(b): -1, 0 or 1 by the collation order of the characters,
\* character by character, a proper prefix first
Collation ==
  << "\n", "\r", " ", "_", "-", ":", ".", "/", "|", "\\",
     "0", "1", "2", "3", "4", "5", "6", "7", "8", "9",
     "a", "b", "k", "m", "p", "q" >>

Rank(c) ==
  IF \E i \in 1..Len(Collation) : Collation[i] = c
  THEN CHOOSE i \in 1..Len(Collation) : Collation[i] = c
  ELSE Len(Collation) + 1

RECURSIVE localeCompare(_, _)
localeCompare(a, b) ==
  IF a = <<>> /\ b = <<>> THEN 0
  ELSE IF a = <<>> THEN -1
  ELSE IF b = <<>> THEN 1
  ELSE IF Rank(Head(a)) < Rank(Head(b)) THEN -1
  ELSE IF Rank(Head(a)) > Rank(Head(b)) THEN 1
  ELSE localeCompare(Tail(a), Tail(b))

\* A comparator without the last key: records of one file and line are equal
CompareNoKey(a, b) ==
  LET af == extractFilePath(a.component)
      bf == extractFilePath(b.component)
      al == Coalesce(a.line, 0)
      bl == Coalesce(b.line, 0)
  IN  IF af # bf THEN localeCompare(af, bf) ELSE al - bl

\* The comparator handed to arr.sort in writeBySeverity
Compare(a, b) ==
  LET af == extractFilePath(a.component)
      bf == extractFilePath(b.component)
      al == Coalesce(a.line, 0)
      bl == Coalesce(b.line, 0)
  IN  IF af # bf THEN localeCompare(af, bf)
      ELSE IF al # bl THEN al - bl
      ELSE localeCompare(a.key, b.key)

\* Array.prototype.sort is stable: an element goes behind every element that
\* does not compare greater than it.
InsertSorted(sorted, x) ==
  LET later == {i \in 1..Len(sorted) : Compare(sorted[i], x) > 0}
      p     == IF later = {} THEN Len(sorted) + 1
               ELSE CHOOSE i \in later : \A j \in later : i <= j
  IN  SubSeq(sorted, 1, p - 1) \o <<x>> \o SubSeq(sorted, p, Len(sorted))

RECURSIVE SortFrom(_, _)
SortFrom(sorted, rest) ==
  IF rest = <<>> THEN sorted
  ELSE SortFrom(InsertSorted(sorted, Head(rest)), Tail(rest))

Sort(arr) == SortFrom(<<>>, arr)

\* ------------------------------------------------------------------ records
Issue(key, component, line, severity, message) ==
  [ key |-> key, component |-> component, line |-> line, severity |-> severity,
    type |-> <<"b">>, rule |-> <<"s", "1">>, status |-> <<"o">>,
    message |-> message, creationDate |-> Some([day |-> 7, utcShift |-> 0]) ]

WEIRD == <<"W", "E", "I", "R", "D">>

\* The records the remote service can hold; their keys are unique.
UniverseSeq ==
  << Issue(<<"k", "1">>, <<"p", ":", "a">>, Some(1), MAJOR, <<"m">>),
     Issue(<<"k", "2">>, <<"p", ":", "a">>, Some(1), MAJOR, <<"m", "|", "m">>),
     Issue(<<"k", "3">>, <<"p", ":", "a">>, Absent, MAJOR, <<"m">>),
     Issue(<<"k", "4">>, <<"p", ":", "b">>, Some(10), MAJOR, <<"m", "\n", "m">>),
     Issue(<<"k", "5">>, <<"b">>, Some(9), MAJOR, <<"m">>),
     Issue(<<"k", "6">>, <<"p", ":", "a">>, Some(1), WEIRD, <<"m">>) >>

Universe == Range(UniverseSeq)

\* The sequences of at most n different positions of UniverseSeq, in every order
RECURSIVE Arrivals(_)
Arrivals(n) ==
  IF n = 0 THEN {<<>>}
  ELSE LET shorter == Arrivals(n - 1)
       IN  shorter \cup UNION {{Append(s, r) : r \in (1..Len(UniverseSeq)) \ Range(s)} :
                                 s \in shorter}

DataSets ==
  {[i \in 1..Len(s) |-> UniverseSeq[s[i]]] : s \in Arrivals(Min(MaxIssues, Len(UniverseSeq)))}

\* What the remote service holds and the total it declares: either the
\* records in any order with their true count, or a prefix of the universe
\* with any total.
Remotes ==
  {[total |-> Len(d), data |-> d] : d \in DataSets}
    \cup {[total |-> t, data |-> SubSeq(UniverseSeq, 1, n)] :
            t \in 0..MaxTotal, n \in 0..Min(MaxIssues, Len(UniverseSeq))}

\* ------------------------------------------------------------------- state
VARIABLES
  remote,      \* the remote service: the records it holds, the total it declares
  pc,          \* "fetch", "write", "done" or "failed"
  page,        \* fetchAllIssues: let page
  total,       \* fetchAllIssues: let total
  all,         \* fetchAllIssues: const all
  requests,    \* the page numbers requested so far, in order
  replies,     \* what each response carried, in order
  bySeverity,  \* writeBySeverity: the Map from severity to its records
  sevIdx,      \* writeBySeverity: the position of sev in SEVERITIES
  chunkIdx,    \* writeBySeverity: the counter i of the chunk loop
  files,       \* the working directory: file name -> content
  written,     \* the console lines "Wrote <name> (<n> issues)", in order
  exitCode,    \* 0 until process.exit(1)
  renderIn,    \* the renderer on its own: the records handed to renderTable
  renderOut    \* the renderer on its own: the text renderTable returned

vars ==
  << remote, pc, page, total, all, requests, replies, bySeverity, sevIdx,
     chunkIdx, files, written, exitCode, renderIn, renderOut >>

\* const BRANCH = process.env.BRANCH || ""
BRANCH == <<>>

\* `${sev}.md` and `${sev}${fileNumber}.md`
FileName(sev, suffix) == sev \o suffix \o <<".md">>

\* A directory: a function from the names of its files to their contents
EmptyDir == [n \in {} |-> <<>>]

\* A write into a directory that is emptied first
WriteFileIntoEmptied(dir, name, content) == [n \in {name} |-> content]

WriteFile(dir, name, content) ==
  [n \in (DOMAIN dir) \cup {name} |-> IF n = name THEN content ELSE dir[n]]

\* What files an earlier run, or anyone else, left in the working directory
StaleContent == <<"stale">>

StaleNames ==
  { FileName(MAJOR, <<>>), FileName(MAJOR, Decimal(1)), FileName(MAJOR, Decimal(3)),
    FileName(WEIRD, Decimal(1)), <<"n", "o", "t", "e", "s">> }

OldDirs == {EmptyDir, [n \in StaleNames |-> StaleContent]}

\* headerFor(severity), and the same template with the part marker that the
\* chunk loop builds in line
BranchPart == IF BRANCH # <<>> THEN <<" on branch ">> \o BRANCH ELSE <<>>

headerFor(severity) ==
  <<"# ">> \o severity \o <<" issues for useago/useago_ago-chat">> \o BranchPart \o <<"\n">>

\* A title that has the part marker only when there are several chunks
ChunkHeaderWhenSplit(sev, fileNumber, numFiles) ==
  IF numFiles > 1
  THEN <<"# ">> \o sev \o <<" issues for useago/useago_ago-chat">> \o BranchPart
         \o <<" (Part ">> \o Decimal(fileNumber) \o <<"/">> \o Decimal(numFiles) \o <<")">>
         \o <<"\n">>
  ELSE headerFor(sev)

ChunkHeader(sev, fileNumber, numFiles) ==
  <<"# ">> \o sev \o <<" issues for useago/useago_ago-chat">> \o BranchPart
    \o <<" (Part ">> \o Decimal(fileNumber) \o <<"/">> \o Decimal(numFiles) \o <<")">>
    \o <<"\n">>

\* The page of the remote service's records that a request for page p with
\* ps = PAGE_SIZE gets
PageOf(data, p) ==
  SubSeq(data, (p - 1) * PAGE_SIZE + 1, Min(p * PAGE_SIZE, Len(data)))

\* A loop that also asks for the page after the last one
LoopCondInclusive(p, t) == t = Infinity \/ (p - 1) * PAGE_SIZE <= t

\* while ((page - 1) * PAGE_SIZE < total), total starting as Infinity
LoopCond(p, t) == t = Infinity \/ (p - 1) * PAGE_SIZE < t

Init ==
  /\ remote \in Remotes
  /\ pc = "fetch"
  /\ page = 1
  /\ total = Infinity
  /\ all = <<>>
  /\ requests = <<>>
  /\ replies = <<>>
  /\ bySeverity = [s \in {} |-> <<>>]
  /\ sevIdx = 0
  /\ chunkIdx = 0
  /\ files \in OldDirs
  /\ written = <<>>
  /\ exitCode = 0
  /\ renderIn = <<>>
  /\ renderOut = <<>>

\* data.paging?.total
PagingTotal(data) == IF data.paging = Absent THEN Absent ELSE data.paging[1].total

\* A total that, when it is missing, is taken as not yet known
TotalOfKeepLooking(data) == Coalesce(data.total, Coalesce(PagingTotal(data), Infinity))

\* data.total ?? data.paging?.total ?? 0
TotalOf(data) == Coalesce(data.total, Coalesce(PagingTotal(data), 0))

\* data.issues ?? []
IssuesOf(data) == Coalesce(data.issues, <<>>)

\* One pass of the loop of fetchAllIssues with a success response.  The
\* response carries its total at the top, under paging, or not at all, and
\* its issue list or none.  (The pause after a full page changes no state.)
FetchPageOk ==
  /\ pc = "fetch"
  /\ LoopCond(page, total)
  /\ \E totalAt \in {"top", "paging", "nowhere"}, withIssues \in BOOLEAN :
       LET data ==
             [ total  |-> IF totalAt = "top" THEN Some(remote.total) ELSE Absent,
               paging |-> IF totalAt = "paging"
                          THEN Some([total |-> Some(remote.total)]) ELSE Absent,
               issues |-> IF withIssues THEN Some(PageOf(remote.data, page))
                          ELSE Absent ]
       IN  /\ total' = TotalOf(data)
           /\ all' = all \o IssuesOf(data)
           /\ replies' = Append(replies,
                [ ok |-> TRUE,
                  total |-> IF data.total # Absent THEN data.total ELSE PagingTotal(data),
                  issues |-> data.issues ])
  /\ requests' = Append(requests, page)
  /\ page' = page + 1
  /\ UNCHANGED <<remote, pc, bySeverity, sevIdx, chunkIdx, files, written,
                 exitCode, renderIn, renderOut>>

\* A loop that logs a non-success response and goes on to the next page
FetchPageErrorSkip ==
  /\ pc = "fetch"
  /\ LoopCond(page, total)
  /\ page <= MaxTotal
  /\ requests' = Append(requests, page)
  /\ replies' = Append(replies, [ok |-> FALSE, total |-> Absent, issues |-> Absent])
  /\ page' = page + 1
  /\ UNCHANGED <<remote, pc, total, all, bySeverity, sevIdx, chunkIdx, files,
                 written, exitCode, renderIn, renderOut>>

\* One pass of the loop with a non-success response: the throw leaves
\* fetchAllIssues, main's catch logs it and calls process.exit(1).
FetchPageError ==
  /\ pc = "fetch"
  /\ LoopCond(page, total)
  /\ requests' = Append(requests, page)
  /\ replies' = Append(replies, [ok |-> FALSE, total |-> Absent, issues |-> Absent])
  /\ pc' = "failed"
  /\ exitCode' = 1
  /\ UNCHANGED <<remote, page, total, all, bySeverity, sevIdx, chunkIdx, files,
                 written, renderIn, renderOut>>

\* The grouping loop of writeBySeverity: a Map that starts with an empty
\* list for every known severity; a record goes to the list of its severity,
\* which is made when the Map has none.
RECURSIVE GroupFrom(_, _)
GroupFrom(map, rest) ==
  IF rest = <<>> THEN map
  ELSE LET it   == Head(rest)
           keys == (DOMAIN map) \cup {it.severity}
           has  == [s \in keys |-> IF s \in DOMAIN map THEN map[s] ELSE <<>>]
       IN  GroupFrom([has EXCEPT ![it.severity] = Append(@, it)], Tail(rest))

\* A grouping that keeps only the records of the known severities
RECURSIVE KnownOnly(_)
KnownOnly(issues) ==
  IF issues = <<>> THEN <<>>
  ELSE (IF Head(issues).severity \in Range(SEVERITIES) THEN <<Head(issues)>> ELSE <<>>)
         \o KnownOnly(Tail(issues))

GroupKnownOnly(issues) == GroupFrom([s \in Range(SEVERITIES) |-> <<>>], KnownOnly(issues))

Group(issues) == GroupFrom([s \in Range(SEVERITIES) |-> <<>>], issues)

\* for (const sev of bySeverity.keys()) arr.sort(...)
SortAll(map) == [s \in DOMAIN map |-> Sort(map[s])]

\* for (const sev of SEVERITIES): the severities whose files are written
WriteOrder == SEVERITIES

\* bySeverity.get(sev) || []
BucketOf(map, sev) == IF sev \in DOMAIN map THEN map[sev] ELSE <<>>

\* Math.ceil(totalIssues / ISSUES_PER_FILE)
NumFiles(totalIssues) == Ceil(totalIssues, ISSUES_PER_FILE)

\* allIssues.slice(start, end) of chunk i (from 0)
ChunkOf(allIssues, i) ==
  LET start == i * ISSUES_PER_FILE
      end   == Min(start + ISSUES_PER_FILE, Len(allIssues))
  IN  SubSeq(allIssues, start + 1, end)

\* fetchAllIssues returns when its loop condition fails; main hands the list
\* to writeBySeverity, which groups and sorts before its first write.
GroupAndSort ==
  /\ pc = "fetch"
  /\ ~LoopCond(page, total)
  /\ bySeverity' = SortAll(Group(all))
  /\ sevIdx' = 1
  /\ chunkIdx' = 0
  /\ pc' = "write"
  /\ UNCHANGED <<remote, page, total, all, requests, replies, files, written,
                 exitCode, renderIn, renderOut>>

\* The write of the one file of an empty bucket
WriteEmpty ==
  /\ pc = "write"
  /\ sevIdx <= Len(WriteOrder)
  /\ LET sev      == WriteOrder[sevIdx]
         filename == FileName(sev, <<>>)
         content  == headerFor(sev) \o <<"\n">> \o renderTable(<<>>)
     IN  /\ Len(BucketOf(bySeverity, sev)) = 0
         /\ files' = WriteFile(files, filename, content)
         /\ written' = Append(written, [name |-> filename, count |-> 0])
  /\ sevIdx' = sevIdx + 1
  /\ UNCHANGED <<remote, pc, page, total, all, requests, replies, bySeverity,
                 chunkIdx, exitCode, renderIn, renderOut>>

\* The write of chunk i of a bucket that holds records
WriteChunk ==
  /\ pc = "write"
  /\ sevIdx <= Len(WriteOrder)
  /\ LET sev        == WriteOrder[sevIdx]
         allIssues  == BucketOf(bySeverity, sev)
         numFiles   == NumFiles(Len(allIssues))
         chunk      == ChunkOf(allIssues, chunkIdx)
         fileNumber == chunkIdx + 1
         filename   == FileName(sev, Decimal(fileNumber))
         content    == ChunkHeader(sev, fileNumber, numFiles) \o <<"\n">>
                         \o renderTable(chunk)
     IN  /\ Len(allIssues) # 0
         /\ chunkIdx < numFiles
         /\ files' = WriteFile(files, filename, content)
         /\ written' = Append(written, [name |-> filename, count |-> Len(chunk)])
         /\ IF chunkIdx + 1 < numFiles
            THEN chunkIdx' = chunkIdx + 1 /\ sevIdx' = sevIdx
            ELSE chunkIdx' = 0 /\ sevIdx' = sevIdx + 1
  /\ UNCHANGED <<remote, pc, page, total, all, requests, replies, bySeverity,
                 exitCode, renderIn, renderOut>>

\* writeBySeverity returns; main logs "Done." and the process ends normally.
Finish ==
  /\ pc = "write"
  /\ sevIdx > Len(WriteOrder)
  /\ pc' = "done"
  /\ UNCHANGED <<remote, page, total, all, requests, replies, bySeverity, sevIdx,
                 chunkIdx, files, written, exitCode, renderIn, renderOut>>

Next ==
  \/ FetchPageOk
  \/ FetchPageError
  \/ GroupAndSort
  \/ WriteEmpty
  \/ WriteChunk
  \/ Finish

Spec == Init /\ [][Next]_vars

\* ------------------------------------------------- the renderer on its own
RenderChars == {"a", "|", "\n", "\r"}

RECURSIVE TextsUpTo(_)
TextsUpTo(n) ==
  IF n = 0 THEN {<<>>}
  ELSE LET shorter == TextsUpTo(n - 1)
       IN  shorter \cup {Append(t, c) : t \in shorter, c \in RenderChars}

Texts == TextsUpTo(MaxText)

PlainIssue == Issue(<<"k", "1">>, <<"p", ":", "a">>, Some(1), MAJOR, <<"m">>)

\* The records handed to the renderer: one field at a time is any text
RenderIssues ==
  UNION { {[PlainIssue EXCEPT !.key = t], [PlainIssue EXCEPT !.type = t],
           [PlainIssue EXCEPT !.rule = t], [PlainIssue EXCEPT !.severity = t],
           [PlainIssue EXCEPT !.status = t], [PlainIssue EXCEPT !.component = t],
           [PlainIssue EXCEPT !.message = t]} : t \in Texts }

RenderInputs ==
  {<<>>} \cup {<<r>> : r \in RenderIssues}
         \cup {<<r, PlainIssue>> : r \in RenderIssues}
         \cup {<<PlainIssue, r>> : r \in RenderIssues}

InitRender ==
  /\ remote = [total |-> 0, data |-> <<>>]
  /\ pc = "render"
  /\ page = 1
  /\ total = Infinity
  /\ all = <<>>
  /\ requests = <<>>
  /\ replies = <<>>
  /\ bySeverity = [s \in {} |-> <<>>]
  /\ sevIdx = 0
  /\ chunkIdx = 0
  /\ files = EmptyDir
  /\ written = <<>>
  /\ exitCode = 0
  /\ renderIn \in RenderInputs
  /\ renderOut = <<>>

Render ==
  /\ pc = "render"
  /\ renderOut' = renderTable(renderIn)
  /\ pc' = "rendered"
  /\ UNCHANGED <<remote, page, total, all, requests, replies, bySeverity, sevIdx,
                 chunkIdx, files, written, exitCode, renderIn>>

NextRender == Render

SpecRender == InitRender /\ [][NextRender]_vars

\* ------------------------------------------------------- reading the output
Max(a, b) == IF a > b THEN a ELSE b

Reverse(s) == [i \in 1..Len(s) |-> s[Len(s) + 1 - i]]

\* The lines of a text: the pieces between its line feeds (a text that ends
\* with a line feed has no empty last line)
Lines(text) ==
  LET feeds == {i \in 1..Len(text) : text[i] = "\n"}
      ends  == feeds \cup (IF text # <<>> /\ text[Len(text)] # "\n"
                           THEN {Len(text) + 1} ELSE {})
      EndNo(k)  == CHOOSE e \in ends : Cardinality({x \in ends : x < e}) = k - 1
      Start(e)  == LET before == {f \in feeds : f < e}
                   IN  IF before = {} THEN 1
                       ELSE (CHOOSE f \in before : \A g \in before : g <= f) + 1
  IN  [k \in 1..Cardinality(ends) |-> SubSeq(text, Start(EndNo(k)), EndNo(k) - 1)]

\* The column separators of a line: the pipes that no backslash escapes
UnescapedPipes(line) ==
  Cardinality({i \in 1..Len(line) : line[i] = "|" /\ (i = 1 \/ line[i - 1] # "\\")})

\* A row of a table of nine columns has ten separators.
RowSeparators == 10

HasPartMarker(content) == \E i \in 1..Len(content) : content[i] = " (Part "

\* The table rows of a file's content: its lines after the title line, the
\* empty line and the two lines of the table header
TableRows(content) ==
  LET ls == Lines(content) IN SubSeq(ls, 5, Len(ls))

WrittenNames == {written[i].name : i \in 1..Len(written)}

Suffix(k) == IF k = 0 THEN <<>> ELSE Decimal(k)

\* The names, in order, of the files written for severity sev
RECURSIVE NamesFor(_, _)
NamesFor(sev, log) ==
  IF log = <<>> THEN <<>>
  ELSE (IF \E k \in 0..(Len(all) + 1) : Head(log).name = FileName(sev, Suffix(k))
        THEN <<Head(log).name>> ELSE <<>>) \o NamesFor(sev, Tail(log))

RECURSIVE ConcatIssues(_)
ConcatIssues(rs) ==
  IF rs = <<>> THEN <<>>
  ELSE Coalesce(Head(rs).issues, <<>>) \o ConcatIssues(Tail(rs))

RECURSIVE ConcatRows(_)
ConcatRows(names) ==
  IF names = <<>> THEN <<>>
  ELSE TableRows(files[Head(names)]) \o ConcatRows(Tail(names))

Fetched == pc \in {"write", "done"}

\* writeBySeverity has grouped and sorted and has not written yet.
JustGrouped == pc = "write" /\ written = <<>>

\* The sizes of the buckets of the severities in keys, added up
RECURSIVE TotalSize(_, _)
TotalSize(map, keys) ==
  IF keys = {} THEN 0
  ELSE LET s == CHOOSE x \in keys : TRUE
       IN  Len(map[s]) + TotalSize(map, keys \ {s})

\* ------------------------------------------------------------------ claims
\* Every response so far was a success and declared the same total.
SameTotal ==
  /\ Len(replies) >= 1
  /\ replies[1].total # Absent
  /\ \A i \in 1..Len(replies) : replies[i].ok /\ replies[i].total = replies[1].total

\* C1: when every response is a success and declares the same total T, the
\* pages requested are 1, 2, 3, ... in order, a further page is requested
\* exactly while (page - 1) * PAGE_SIZE < T, so max(1, ceil(T / PAGE_SIZE))
\* requests are made in all, and the list returned is the records of the
\* pages in page order.
C1_Pagination ==
  SameTotal =>
    LET T == replies[1].total[1]
        K == Max(1, Ceil(T, PAGE_SIZE))
        n == Len(requests)
    IN  /\ requests = [i \in 1..n |-> i]
        /\ Len(replies) = n
        /\ n <= K
        /\ page = n + 1
        /\ (pc = "fetch" => ((ENABLED FetchPageOk) <=> (page - 1) * PAGE_SIZE < T))
        /\ (pc = "fetch" => (~LoopCond(page, total) <=> n = K))
        /\ (Fetched => n = K)
        /\ all = ConcatIssues(replies)

\* C1 witness: a total of 2 * PAGE_SIZE + 1 fetched in three requests, two
\* full pages and a last page of one record.
C1_Witness ==
  /\ pc = "done"
  /\ SameTotal
  /\ replies[1].total[1] = 2 * PAGE_SIZE + 1
  /\ requests = <<1, 2, 3>>
  /\ \A i \in 1..3 : replies[i].issues # Absent
  /\ Len(replies[1].issues[1]) = PAGE_SIZE
  /\ Len(replies[2].issues[1]) = PAGE_SIZE
  /\ Len(replies[3].issues[1]) = 1
  /\ Len(all) = 2 * PAGE_SIZE + 1

\* C2: once a page request gets a non-success response, that request is the
\* last one, no file has been or is written, the directory is as it was
\* found, and the process has exited with status 1.
C2_AbortOnError ==
  \A i \in 1..Len(replies) :
    ~replies[i].ok =>
      /\ i = Len(replies)
      /\ Len(requests) = Len(replies)
      /\ pc = "failed"
      /\ exitCode = 1
      /\ written = <<>>
      /\ files \in OldDirs
      /\ ~ENABLED FetchPageOk
      /\ ~ENABLED FetchPageError
      /\ ~ENABLED WriteEmpty
      /\ ~ENABLED WriteChunk

\* C2 witness: the second page fails after a first page that succeeded.
C2_Witness ==
  /\ Len(replies) = 2
  /\ replies[1].ok
  /\ ~replies[2].ok
  /\ requests = <<1, 2>>
  /\ pc = "failed"

\* The run has written a file for each of the five known severities.
AllKnownWritten ==
  \A s \in Range(SEVERITIES) : NamesFor(s, written) # <<>>

\* C9: a success response without a total counts as total 0 and one without
\* an issue list as no records: no error is raised, the page's records (if
\* any) are in the result, no page is requested after it, and the run goes on
\* to group and to write the files of the five known severities.
C9_MissingFields ==
  /\ (\A i \in 1..Len(replies) : replies[i].ok) =>
        /\ all = ConcatIssues(replies)
        /\ exitCode = 0
        /\ pc # "failed"
  /\ \A i \in 1..Len(replies) :
       (replies[i].ok /\ replies[i].total = Absent) =>
         /\ i = Len(replies)
         /\ Len(requests) = i
         /\ total = 0
         /\ (pc = "fetch" => (~ENABLED FetchPageOk) /\ (~ENABLED FetchPageError)
                               /\ ~LoopCond(page, total))
         /\ (pc = "done" => AllKnownWritten)

\* C9 witness: the second response has a list of records and no total; the
\* run ended with its records fetched and the files written.
C9_Witness ==
  /\ pc = "done"
  /\ Len(replies) = 2
  /\ replies[2].total = Absent
  /\ replies[2].issues # Absent
  /\ replies[2].issues[1] # <<>>
  /\ replies[1].issues = Absent
  /\ replies[1].total # Absent
  /\ all = replies[2].issues[1]
  /\ AllKnownWritten

\* The order the specification gives: by file path, then by line number with
\* a missing line as 0, then by key
Precedes(a, b) ==
  LET af == extractFilePath(a.component)
      bf == extractFilePath(b.component)
      al == IF a.line = Absent THEN 0 ELSE a.line[1]
      bl == IF b.line = Absent THEN 0 ELSE b.line[1]
  IN  \/ localeCompare(af, bf) < 0
      \/ af = bf /\ al < bl
      \/ af = bf /\ al = bl /\ localeCompare(a.key, b.key) < 0

\* C6: after grouping, every fetched record is in the bucket of its own
\* severity and in no other, no bucket holds anything else, the bucket
\* sizes add up to the number of fetched records, and each of the five
\* known severities has a bucket.
C6_Grouping ==
  JustGrouped =>
    /\ Range(SEVERITIES) \subseteq DOMAIN bySeverity
    /\ DOMAIN bySeverity = Range(SEVERITIES) \cup {all[i].severity : i \in 1..Len(all)}
    /\ \A i \in 1..Len(all) : \A s \in DOMAIN bySeverity :
         (\E j \in 1..Len(bySeverity[s]) : bySeverity[s][j] = all[i])
            <=> s = all[i].severity
    /\ \A s \in DOMAIN bySeverity : \A j \in 1..Len(bySeverity[s]) :
         /\ \E i \in 1..Len(all) : all[i] = bySeverity[s][j]
         /\ \A k \in 1..Len(bySeverity[s]) : k # j => bySeverity[s][k] # bySeverity[s][j]
    /\ TotalSize(bySeverity, DOMAIN bySeverity) = Len(all)

\* C6 witness: records of a known and of an unknown severity were grouped.
C6_Witness ==
  /\ JustGrouped
  /\ WEIRD \in DOMAIN bySeverity
  /\ Len(bySeverity[WEIRD]) = 1
  /\ Len(bySeverity[MAJOR]) = 3
  /\ Len(bySeverity[INFO]) = 0
  /\ Len(all) = 4

\* C7: each bucket is in the order by (file path, line with a missing line
\* as 0, key); any two of its records are ordered one way and not the other;
\* sorting the bucket again, or sorting the same records arriving in the
\* opposite order, gives the same bucket.
C7_SortOrder ==
  JustGrouped =>
    \A s \in DOMAIN bySeverity :
      LET b == bySeverity[s]
      IN  /\ \A i, j \in 1..Len(b) : i < j => Precedes(b[i], b[j])
          /\ \A i, j \in 1..Len(b) : i # j => (Precedes(b[i], b[j]) <=> ~Precedes(b[j], b[i]))
          /\ Sort(b) = b
          /\ Sort(Reverse(b)) = b

\* C7 witness: the records k2, k1, k4, k5, k3 arrived in this order (k1 and
\* k2 share file and line, k3 has no line, 9 comes before 10) and the bucket
\* is k3, k1, k2, k5, k4.
C7_Witness ==
  /\ JustGrouped
  /\ Len(all) = 5
  /\ [i \in 1..5 |-> all[i].key[2]] = <<"2", "1", "4", "5", "3">>
  /\ [i \in 1..5 |-> bySeverity[MAJOR][i].key[2]] = <<"3", "1", "2", "5", "4">>

\* The rows a table of the records in b has, one per record
RowsOf(b) == [j \in 1..Len(b) |-> RenderRow(b[j])]

\* C3: after a successful run there are output files for each of the five
\* known severities and for every other severity met among the fetched
\* records, and every fetched record is in a table of some output file.
C3_EverySeverityWritten ==
  pc = "done" =>
    /\ \A s \in Range(SEVERITIES) \cup {all[i].severity : i \in 1..Len(all)} :
         NamesFor(s, written) # <<>>
    /\ \A i \in 1..Len(all) : \E j \in 1..Len(written) :
         RenderRow(all[i]) \in Range(TableRows(files[written[j].name]))

\* The bucket of severity s is written as the specification says: one file
\* without a number that holds the placeholder when it is empty, and
\* otherwise files 1 .. ceil(n / ISSUES_PER_FILE) in this order, all full
\* except possibly the last, that hold the bucket's rows in the bucket's order.
ChunkedRight(s) ==
  LET b     == BucketOf(bySeverity, s)
      n     == Len(b)
      k     == Ceil(n, ISSUES_PER_FILE)
      names == NamesFor(s, written)
  IN  IF n = 0
      THEN /\ names = <<FileName(s, <<>>)>>
           /\ Lines(files[names[1]])[3] = <<"_No unresolved issues._">>
           /\ Len(Lines(files[names[1]])) = 3
      ELSE /\ names = [i \in 1..k |-> FileName(s, Decimal(i))]
           /\ \A i \in 1..k :
                LET rows == Len(TableRows(files[names[i]]))
                IN  /\ i < k => rows = ISSUES_PER_FILE
                    /\ rows >= 1 /\ rows <= ISSUES_PER_FILE
                    /\ \E j \in 1..Len(written) :
                         written[j] = [name |-> names[i], count |-> rows]
           /\ ConcatRows(names) = RowsOf(b)

\* C4: every bucket, of n records, is written as one file '<severity>.md'
\* with the placeholder when n = 0 and otherwise as ceil(n / N) files
\* '<severity>1.md' .. '<severity>k.md' in this order, every one but the last
\* of N records, whose rows together are the sorted bucket.
C4_Chunking ==
  pc = "done" => \A s \in DOMAIN bySeverity : ChunkedRight(s)

\* The same of the buckets of the five known severities alone
ChunkingOfKnownSeverities ==
  pc = "done" => \A s \in Range(SEVERITIES) : ChunkedRight(s)

\* A bucket of 2 * ISSUES_PER_FILE + 1 records written as three files
ThreeChunksWritten ==
  /\ pc = "done"
  /\ Len(bySeverity[MAJOR]) = 2 * ISSUES_PER_FILE + 1
  /\ NamesFor(MAJOR, written) = <<FileName(MAJOR, <<"1">>), FileName(MAJOR, <<"2">>),
                                  FileName(MAJOR, <<"3">>)>>
  /\ Len(TableRows(files[FileName(MAJOR, <<"3">>)])) = 1

\* What follows " (Part " in a content, up to the closing bracket
PartMarker(content) ==
  LET at  == CHOOSE i \in 1..Len(content) : content[i] = " (Part "
      end == CHOOSE j \in (at + 1)..Len(content) :
               content[j] = ")" /\ \A m \in (at + 1)..(j - 1) : content[m] # ")"
  IN  SubSeq(content, at + 1, end - 1)

\* C5 as stated: a written file has a part marker exactly when its bucket is
\* split into more than one chunk.
C5_MarkerOnlyWhenSplit ==
  \A s \in Range(SEVERITIES) : \A k \in 0..Len(all) :
    LET name == FileName(s, Suffix(k))
    IN  name \in WrittenNames =>
          (HasPartMarker(files[name]) <=> Len(BucketOf(bySeverity, s)) > ISSUES_PER_FILE)

\* C5 as amended: a written file has a part marker exactly when its bucket
\* holds a record, and the marker of file k of the bucket reads
\* k/ceil(n / ISSUES_PER_FILE), which is 1/1 for a bucket of one chunk; the
\* file of an empty bucket has no marker.
C5_MarkerWhenNotEmpty ==
  \A s \in Range(SEVERITIES) : \A k \in 0..Len(all) :
    LET name == FileName(s, Suffix(k))
        n    == Len(BucketOf(bySeverity, s))
    IN  name \in WrittenNames =>
          /\ HasPartMarker(files[name]) <=> n > 0
          /\ n > 0 => PartMarker(files[name])
                        = Decimal(k) \o <<"/">> \o Decimal(Ceil(n, ISSUES_PER_FILE))

\* C5 witness: a bucket of one record, written as one file with the marker
\* 1/1, beside the file of an empty bucket, which has none.
C5_Witness ==
  /\ pc = "done"
  /\ Len(bySeverity[MAJOR]) = 1
  /\ PartMarker(files[FileName(MAJOR, <<"1">>)]) = <<"1", "/", "1">>
  /\ ~HasPartMarker(files[FileName(INFO, <<>>)])

\* C8: a table of n records has n row lines after its two header lines, and
\* each row line has the ten column separators and no other unescaped pipe.
C8_OneRowPerRecord ==
  (pc = "rendered" /\ renderIn # <<>>) =>
    LET ls == Lines(renderOut)
    IN  /\ Len(ls) = 2 + Len(renderIn)
        /\ \A i \in 3..Len(ls) : UnescapedPipes(ls[i]) = RowSeparators

\* The same of the records whose key holds no pipe and no line feed
RowsKeptWhenKeyIsPlain ==
  (pc = "rendered" /\ renderIn # <<>>
     /\ \A i \in 1..Len(renderIn) : \A j \in 1..Len(renderIn[i].key) :
          renderIn[i].key[j] \notin {"|", "\n"}) =>
    LET ls == Lines(renderOut)
    IN  /\ Len(ls) = 2 + Len(renderIn)
        /\ \A i \in 3..Len(ls) : UnescapedPipes(ls[i]) = RowSeparators

\* The names of the files that a run names for the grouped records
RunNames ==
  UNION { IF Len(BucketOf(bySeverity, s)) = 0
          THEN {FileName(s, <<>>)}
          ELSE {FileName(s, Decimal(k)) :
                  k \in 1..Ceil(Len(BucketOf(bySeverity, s)), ISSUES_PER_FILE)}
          : s \in Range(SEVERITIES) }

====
